---- MODULE Spec2Model ----
(***************************************************************************)
(* data-collector: a Modbus/TCP poller that publishes InfluxDB lines.      *)
(*                                                                         *)
(* The module models                                                       *)
(*   - device.rs : DataType (parse_data), Request, Registers::new (the     *)
(*                 request plan), Device::read and influxdb_line,          *)
(*   - config.rs : device_from_config (template merge),                    *)
(*   - sensor.rs : RegisterMap::group_registers, Sensor::read_registers,   *)
(*   - main.rs   : connection_task and the reconnect loop of main.         *)
(***************************************************************************)
EXTENDS Integers, Sequences, FiniteSets, TLC

(***************************************************************************)
(* Bounds of the model.                                                    *)
(***************************************************************************)
\* Register addresses are drawn from 0..MaxAddr and from the top of the
\* 16-bit address space, (U16Max - MaxHigh)..U16Max.
MaxAddr == 3
MaxHigh == 2
\* Largest number of registers in one register map.
MaxRegs == 3
\* Largest number of registers of a device that is read.
MaxReadRegs == 2
\* The wall clock runs from 0 to MaxClock nanoseconds.
MaxClock == 3
\* Reads and posts stop failing once the failure counter has reached MaxFail.
MaxFail == 5
\* The fleet: NumDevices devices of at most MaxPollRegs registers each.
NumDevices == 2
MaxPollRegs == 2
\* The registers of a Sensor lie in 0..MaxSensorAddr or at the last address.
MaxSensorAddr == 3

(***************************************************************************)
(* device.rs: DataType                                                     *)
(***************************************************************************)
U16Max == 65535

DataType == {"U16", "U32", "I16", "I32", "F32", "F64"}

num_registers(dt) ==
    CASE dt \in {"U16", "I16"} -> 1
      [] dt \in {"U32", "I32", "F32"} -> 2
      [] dt = "F64" -> 4

(***************************************************************************)
(* device.rs: DataType::parse_data.  A u16 is an integer in 0..65535; a    *)
(* wider bit pattern (u32, i32, u64) is the sequence of its 16-bit words,  *)
(* most significant word first.                                            *)
(***************************************************************************)
I16Min == 32768

\* `a | b` on two 16-bit words, bit by bit.
RECURSIVE BitOr(_, _)
BitOr(a, b) ==
    IF a = 0 THEN b
    ELSE IF b = 0 THEN a
    ELSE (IF a % 2 = 1 \/ b % 2 = 1 THEN 1 ELSE 0) + 2 * BitOr(a \div 2, b \div 2)

\* `x as i16 as i32`: a cast that extends the sign bit of the word.
u16_as_i16_as_i32(x) == <<IF x >= I16Min THEN U16Max ELSE 0, x>>

\* `x as u32`, `x as i32`, `x as u64` of a u16: the source type is unsigned,
\* so the cast zero-extends.
u16_as_u32(x) == <<0, x>>
u16_as_i32(x) == <<0, x>>
u16_as_u64(x) == <<0, 0, 0, x>>

\* `v << (16 * k)`: the words move up k places, the top k words are lost.
Shl(v, k) == [i \in 1..Len(v) |-> IF i + k <= Len(v) THEN v[i + k] ELSE 0]

\* `a | b` on two patterns of the same width.
Or(a, b) == [i \in 1..Len(a) |-> BitOr(a[i], b[i])]

\* Two's complement negation: invert every bit, add one.
Not(v) == [i \in 1..Len(v) |-> U16Max - v[i]]

RECURSIVE Inc(_)
Inc(v) ==
    IF v = <<>> THEN <<>>
    ELSE IF v[Len(v)] = U16Max THEN Append(Inc(SubSeq(v, 1, Len(v) - 1)), 0)
    ELSE [v EXCEPT ![Len(v)] = @ + 1]

Negate(v) == Inc(Not(v))

\* An f64.  kind "int": the integer of sign `neg` and 32-bit magnitude
\* `bits` (every such integer is an f64).  kind "f32", "f64": the float
\* whose IEEE-754 bit pattern is `bits`.
F64(kind, neg, bits) == [kind |-> kind, neg |-> neg, bits |-> bits]

\* A magnitude of one word written with two.
Widen(v) == IF Len(v) = 1 THEN <<0, v[1]>> ELSE v

\* f64::from(u16), f64::from(u32)
f64_from_unsigned(v) == F64("int", FALSE, Widen(v))

\* f64::from(i16), f64::from(i32): the top bit of the pattern is the sign.
f64_from_signed(v) ==
    IF v[1] >= I16Min THEN F64("int", TRUE, Widen(Negate(v)))
    ELSE F64("int", FALSE, Widen(v))

\* The highest index parse_data reads is num_registers - 1: a shorter slice
\* panics (index out of bounds).
parse_data_panics(self, data) == Len(data) < num_registers(self)

parse_data(self, data) ==
    CASE self = "U16" -> f64_from_unsigned(<<data[1]>>)
      [] self = "U32" ->
            f64_from_unsigned(Or(Shl(u16_as_u32(data[1]), 1), u16_as_u32(data[2])))
      [] self = "I16" -> f64_from_signed(<<data[1]>>)
      [] self = "I32" ->
            f64_from_signed(Or(Shl(u16_as_i32(data[1]), 1), u16_as_i32(data[2])))
      [] self = "F32" ->
            F64("f32", FALSE, Or(Shl(u16_as_u32(data[1]), 1), u16_as_u32(data[2])))
      [] self = "F64" ->
            F64("f64", FALSE,
                Or(Or(Or(Shl(u16_as_u64(data[1]), 3), Shl(u16_as_u64(data[2]), 2)),
                      Shl(u16_as_u64(data[3]), 1)),
                   u16_as_u64(data[4])))

(***************************************************************************)
(* device.rs: influxdb_line.  A text is the sequence of its characters.    *)
(***************************************************************************)
\* `s.replace(from, to)`: every occurrence of the character `from` becomes
\* the text `to`.
RECURSIVE replace(_, _, _)
replace(s, from, to) ==
    IF s = <<>> THEN <<>>
    ELSE (IF Head(s) = from THEN to ELSE <<Head(s)>>) \o replace(Tail(s), from, to)

\* `|s: &str| s.replace(',', "\\,").replace(' ', "\\ ")`
escape_meas(s) == replace(replace(s, ",", <<"\\", ",">>), " ", <<"\\", " ">>)

\* `|s: &str| escape_meas(s).replace('=', "\\=")`
escape_tag(s) == replace(escape_meas(s), "=", <<"\\", "=">>)

\* `for (k, v) in tags { line.push_str(&format!(",{}={}", ..)) }`
RECURSIVE PushTags(_, _)
PushTags(line, tags) ==
    IF tags = <<>> THEN line
    ELSE PushTags(line \o <<",">> \o escape_tag(Head(tags)[1])
                       \o <<"=">> \o escape_tag(Head(tags)[2]),
                  Tail(tags))

\* influxdb_line; `value` and `timestamp` are the texts `{}` formats them to.
influxdb_line(measurement, tags, value, timestamp) ==
    PushTags(escape_meas(measurement), tags)
        \o <<" ", "v", "a", "l", "u", "e", "=">> \o value
        \o <<" ">> \o timestamp \o <<"\n">>

(***************************************************************************)
(* device.rs: Request.  `addr + len` is u16 arithmetic: with overflow      *)
(* checks (debug profile) an overflowing sum panics, without them          *)
(* (release profile) it wraps modulo 2^16.                                 *)
(***************************************************************************)
RequestOverflows(addr, len) == addr + len > U16Max

Request_new(addr, len) ==
    [start |-> addr, end |-> (addr + len) % (U16Max + 1)]

(***************************************************************************)
(* device.rs: Registers::new.  A register map is a function from a finite  *)
(* set of addresses (the BTreeMap keys) to data types; iteration is in     *)
(* ascending key order.                                                    *)
(***************************************************************************)
Min(S) == CHOOSE x \in S : \A y \in S : x <= y
Max(S) == CHOOSE x \in S : \A y \in S : x >= y

RECURSIVE SortedKeys(_)
SortedKeys(S) ==
    IF S = {} THEN <<>>
    ELSE <<Min(S)>> \o SortedKeys(S \ {Min(S)})

\* `Some(ref mut prev) if curr.start <= prev.end`, mutated to a strict test.
AppendsToPrevStrict(curr, prev) == curr.start < prev.end

\* `Some(ref mut prev) if curr.start <= prev.end`
AppendsToPrev(curr, prev) == curr.start <= prev.end

\* `if curr.end > prev.end { prev.end = curr.end; }`
ExtendPrev(prev, curr) ==
    IF curr.end > prev.end THEN [prev EXCEPT !.end = curr.end] ELSE prev

\* One iteration of `for reg in &map`.
PushRegister(requests, addr, dt) ==
    LET curr == Request_new(addr, num_registers(dt))
        n    == Len(requests)
    IN  IF n > 0 /\ AppendsToPrev(curr, requests[n])
        THEN [requests EXCEPT ![n] = ExtendPrev(requests[n], curr)]
        ELSE Append(requests, curr)

RECURSIVE RegistersFold(_, _, _)
RegistersFold(map, keys, requests) ==
    IF keys = <<>> THEN requests
    ELSE RegistersFold(map, Tail(keys),
                       PushRegister(requests, Head(keys), map[Head(keys)]))

\* The request list of Registers::new(map), when no Request::new panics.
Registers_new(map) == RegistersFold(map, SortedKeys(DOMAIN map), <<>>)

\* Registers::new panics iff some Request::new overflows under overflow checks.
Registers_new_panics(map, checks) ==
    checks /\ \E a \in DOMAIN map : RequestOverflows(a, num_registers(map[a]))

(***************************************************************************)
(* device.rs: Register, Device.  A BTreeMap is a function on its key set;  *)
(* the empty map is the function with the empty domain.                    *)
(***************************************************************************)
EmptyMap == [k \in {} |-> 0]

Register(data_type, name) == [data_type |-> data_type, name |-> name]

\* The data types of a BTreeMap<u16, Register>, by address.
Widths(map) == [a \in DOMAIN map |-> map[a].data_type]

\* Device::new: builds the Registers (request plan) of the device.  The
\* device panics during construction when Registers::new does.
Device(id, scan_interval, tags, input_registers, checks) ==
    [id            |-> id,
     scan_interval |-> scan_interval,
     tags          |-> tags,
     map           |-> input_registers,
     state         |-> IF Registers_new_panics(Widths(input_registers), checks)
                       THEN "panic" ELSE "built",
     requests      |-> IF Registers_new_panics(Widths(input_registers), checks)
                       THEN <<>> ELSE Registers_new(Widths(input_registers))]

\* The arguments of a Device::new call that has not run yet.
DeviceArgs(id, scan_interval, tags, input_registers) ==
    [id |-> id, scan_interval |-> scan_interval, tags |-> tags,
     map |-> input_registers, state |-> "none", requests |-> <<>>]

(***************************************************************************)
(* config.rs: DeviceConfig, RegisterConfig, device_from_config.            *)
(* An Option is <<>> (None) or <<v>> (Some(v)).                            *)
(***************************************************************************)
None == <<>>
Some(v) == <<v>>

\* Option::or, the merge that silently prefers the template's value.
Option_or(a, b) == IF a # None THEN a ELSE b

\* Option::xor: Some iff exactly one of the two is Some.
Option_xor(a, b) ==
    IF a # None /\ b = None THEN a
    ELSE IF a = None /\ b # None THEN b
    ELSE None

\* A map merge that keeps the value already present in `self`.
BTreeMap_append_keep(self, other) ==
    [k \in DOMAIN self \cup DOMAIN other |->
        IF k \in DOMAIN self THEN self[k] ELSE other[k]]

\* BTreeMap::append: moves all of `other` into `self`; for a key present in
\* both, the value of `other` overwrites the value of `self`.
BTreeMap_append(self, other) ==
    [k \in DOMAIN self \cup DOMAIN other |->
        IF k \in DOMAIN other THEN other[k] ELSE self[k]]

\* DeviceConfig::default(): every field None or empty.
DeviceConfig_default ==
    [template |-> None, id |-> None, scan_interval |-> None,
     tags |-> EmptyMap, input_registers |-> <<>>]

\* `config.template.and_then(|name| templates.get(&name).cloned()).unwrap_or_default()`
Scaffold(templates, config) ==
    IF config.template # None /\ config.template[1] \in DOMAIN templates
    THEN templates[config.template[1]]
    ELSE DeviceConfig_default

\* humantime::parse_duration, in nanoseconds; None when the text is no duration.
parse_duration(s) ==
    CASE s = "2ns" -> Some(2)
      [] s = "3ns" -> Some(3)
      [] OTHER -> None

\* impl FromStr for DataType
DataType_from_str(s) ==
    CASE s = "u16" -> Some("U16")
      [] s = "u32" -> Some("U32")
      [] s = "i16" -> Some("I16")
      [] s = "i32" -> Some("I32")
      [] s = "f32" -> Some("F32")
      [] s = "f64" -> Some("F64")
      [] OTHER -> None

\* RegisterConfig::Simple(addr) and RegisterConfig::Advanced { addr, name, data_type, .. }
RegisterConfig_Simple(addr) ==
    [simple |-> TRUE, addr |-> addr, name |-> "", data_type |-> None]
RegisterConfig_Advanced(addr, name, data_type) ==
    [simple |-> FALSE, addr |-> addr, name |-> name, data_type |-> data_type]

\* An Advanced entry whose data_type text is no DataType makes the closure panic.
RegisterConfig_panics(r) ==
    ~r.simple /\ r.data_type # None /\ DataType_from_str(r.data_type[1]) = None

\* The (addr, Register) pair of one RegisterConfig.
RegisterConfig_register(r) ==
    IF r.simple THEN Register("U16", "input_register_" \o ToString(r.addr))
    ELSE Register(IF r.data_type = None THEN "U16"
                  ELSE DataType_from_str(r.data_type[1])[1], r.name)

\* `.collect()` into a BTreeMap: entries are inserted in order, a later entry
\* replaces an earlier one at the same address.
RECURSIVE CollectRegisters(_, _)
CollectRegisters(list, acc) ==
    IF list = <<>> THEN acc
    ELSE CollectRegisters(Tail(list),
            [a \in DOMAIN acc \cup {Head(list).addr} |->
                IF a = Head(list).addr THEN RegisterConfig_register(Head(list))
                ELSE acc[a]])

\* device_from_config: "ok", or the panic that ends it.  The panics are
\* checked in the order the code reaches them.
device_from_config_result(templates, config, checks) ==
    LET c   == Scaffold(templates, config)
        id  == Option_xor(c.id, config.id)
        si  == Option_xor(c.scan_interval, config.scan_interval)
        regs == c.input_registers \o config.input_registers
    IN  IF id = None THEN "panic_id"
        ELSE IF si = None THEN "panic_scan_interval"
        ELSE IF parse_duration(si[1]) = None THEN "panic_duration"
        ELSE IF \E i \in 1..Len(regs) : RegisterConfig_panics(regs[i])
             THEN "panic_register_type"
        ELSE IF Registers_new_panics(Widths(CollectRegisters(regs, EmptyMap)), checks)
             THEN "panic_overflow"
        ELSE "ok"

\* The Device that device_from_config returns when its result is "ok".
device_from_config(templates, config, checks) ==
    LET c   == Scaffold(templates, config)
        id  == Option_xor(c.id, config.id)
        si  == Option_xor(c.scan_interval, config.scan_interval)
        regs == c.input_registers \o config.input_registers
        tags == BTreeMap_append(c.tags, config.tags)
    IN  Device(id[1], parse_duration(si[1])[1], tags,
               CollectRegisters(regs, EmptyMap), checks)

(***************************************************************************)
(* State.                                                                  *)
(***************************************************************************)
VARIABLES
    overflow_checks,   \* build profile: TRUE = debug (integer overflow panics)
    devices,           \* Vec<Device>: the devices (or pending Device::new calls)
    templates,         \* DevicesConfig.templates: BTreeMap<String, DeviceConfig>
    config,            \* the device section handed to device_from_config
    cfg_result,        \* "none" | "ok" | the panic of device_from_config
    pc,                \* where the process stands (main, connection_task, read)
    cur,               \* connection_task: index of the device being polled
    req_idx,           \* Device::read: index of the request being served
    mb,                \* the shared transport: unit id and requests on the wire
    now,               \* SystemTime::now() in nanoseconds since the epoch
    influx_lines,      \* Device::read: the lines accumulated by this call
    result,            \* outcome of the read call: "none" | "Ok" | modbus::Error
    lines,             \* connection_task: the lines of this pass over the devices
    log,               \* level of the last log record: "none" | "warn" | "error"
    read_errors,       \* read_input_registers errors seen by the current read call
    sensor,            \* sensor.rs: the Sensor that is read (id, RegisterMap)
    values,            \* Sensor::read_registers: keys of the HashMap being filled
    outcome,           \* the last outcome handed to the Controller
    fail_count,        \* the Controller's failure counter
    calls,             \* Device::read: the calls made on the transport by this call
    slices,            \* Device::read: the slices handed to parse_data by this call
    parse_call,        \* DataType::parse_data: the receiver and the argument
    parse_ret,         \* DataType::parse_data: the value returned (or the panic)
    enc_call,          \* influxdb_line: the arguments
    enc_ret            \* influxdb_line: the line returned

cfgVars == <<templates, config, cfg_result>>
readVars == <<req_idx, mb, influx_lines, result, read_errors, calls, slices>>
taskVars == <<cur, lines, log, outcome, fail_count>>
sensorVars == <<sensor, values>>
pureVars == <<parse_call, parse_ret, enc_call, enc_ret>>

vars == <<overflow_checks, devices, templates, config, cfg_result,
          pc, cur, req_idx, mb, now, influx_lines, result, lines, log,
          read_errors, sensor, values, outcome, fail_count, calls, slices,
          parse_call, parse_ret, enc_call, enc_ret>>

\* ModbusTcpConfig.modbus_uid: the unit id of a fresh transport (config.rs).
InitialUid == 0

\* The process has not started polling (or polling is not part of the run).
NoPolling ==
    /\ pc = "idle"
    /\ cur = 1
    /\ req_idx = 1
    /\ mb = [uid |-> InitialUid, inflight |-> {}]
    /\ now = 0
    /\ influx_lines = <<>>
    /\ result = "none"
    /\ lines = <<>>
    /\ log = "none"
    /\ read_errors = 0
    /\ outcome = "none"
    /\ fail_count = 0
    /\ calls = <<>>
    /\ slices = <<>>

\* No Sensor of sensor.rs takes part in the run.
NoSensor ==
    /\ sensor = [id |-> 0, registers |-> {}, read_groups |-> <<>>]
    /\ values = {}

\* The configuration stage is over (or is not part of the run).
NoConfig ==
    /\ templates = EmptyMap
    /\ config = DeviceConfig_default
    /\ cfg_result = "none"

\* No parse_data call and no influxdb_line call is part of the run.
NoReturn == [state |-> "none", value |-> F64("int", FALSE, <<0, 0>>)]
NoLine == [state |-> "none", line |-> <<>>]
NoPure ==
    /\ parse_call = [self |-> "U16", data |-> <<>>]
    /\ parse_ret = NoReturn
    /\ enc_call = [measurement |-> <<>>, tags |-> <<>>]
    /\ enc_ret = NoLine

AddrSpace == (0..MaxAddr) \cup ((U16Max - MaxHigh)..U16Max)

RegisterMaps ==
    UNION { [S -> {Register(dt, "r") : dt \in DataType}] :
            S \in { T \in SUBSET AddrSpace : Cardinality(T) <= MaxRegs } }

(***************************************************************************)
(* SpecPlan: Device::new builds the request plan of an arbitrary map.      *)
(***************************************************************************)
InitPlan ==
    /\ overflow_checks \in BOOLEAN
    /\ \E m \in RegisterMaps : devices = <<DeviceArgs(1, 1, EmptyMap, m)>>
    /\ NoConfig
    /\ NoPolling
    /\ NoSensor
    /\ NoPure

\* Device::new -> Registers::new
Device_new ==
    /\ \E i \in 1..Len(devices) :
        /\ devices[i].state = "none"
        /\ devices' = [devices EXCEPT ![i] =
                          Device(devices[i].id, devices[i].scan_interval,
                                 devices[i].tags, devices[i].map, overflow_checks)]
    /\ UNCHANGED <<overflow_checks, cfgVars, pc, now, readVars, taskVars,
                   sensorVars, pureVars>>

NextPlan == Device_new

SpecPlan == InitPlan /\ [][NextPlan]_vars

(***************************************************************************)
(* Claims about the request plan (SpecPlan).                               *)
(***************************************************************************)
Built(d) == d.state = "built"

\* The requests of device d that contain the register at address a whole.
Covering(d, a) ==
    { i \in 1..Len(d.requests) :
        /\ d.requests[i].start <= a
        /\ a + num_registers(d.map[a].data_type) <= d.requests[i].end }

\* Some register of d ends beyond the last 16-bit address.
HasOverflow(d) ==
    \E a \in DOMAIN d.map : RequestOverflows(a, num_registers(d.map[a].data_type))

\* C1 (as claimed): every register [a, a+w) of the map given to Device::new
\* lies within exactly one request interval [s, e) of the resulting plan.
PlanCoverage ==
    \A i \in 1..Len(devices) :
        Built(devices[i]) =>
            \A a \in DOMAIN devices[i].map : Cardinality(Covering(devices[i], a)) = 1

\* The coverage that does hold: maps none of whose registers reaches past
\* address 65535 (a + w <= 65535) are covered exactly once.
PlanCoverageBelowU16Max ==
    \A i \in 1..Len(devices) :
        (Built(devices[i]) /\ ~HasOverflow(devices[i])) =>
            \A a \in DOMAIN devices[i].map : Cardinality(Covering(devices[i], a)) = 1

\* C2: adjacent request intervals I, J satisfy J.start > I.end; an interval
\* starts only at a register's address, and a register that does not start
\* an interval touches or overlaps the interval it was merged into
\* (s < a <= e).
PlanMinimality ==
    \A i \in 1..Len(devices) :
        Built(devices[i]) =>
            LET r == devices[i].requests
                m == devices[i].map
            IN  /\ \A j \in 1..(Len(r) - 1) : r[j + 1].start > r[j].end
                /\ \A j \in 1..Len(r) : r[j].start \in DOMAIN m
                /\ \A a \in DOMAIN m :
                      \/ \E j \in 1..Len(r) : r[j].start = a
                      \/ \E j \in 1..Len(r) : r[j].start < a /\ a <= r[j].end

\* Witness of C2: a plan of two intervals, one of which absorbed a register.
PlanMinimalityWitness ==
    \E i \in 1..Len(devices) :
        /\ Built(devices[i])
        /\ Len(devices[i].requests) = 2
        /\ \E a \in DOMAIN devices[i].map :
              \A j \in 1..Len(devices[i].requests) : devices[i].requests[j].start # a

(***************************************************************************)
(* SpecConfig: device_from_config on an arbitrary template map and device  *)
(* section.                                                                *)
(***************************************************************************)
TagKeys == {"k1", "k2", "k3"}

\* Tag maps whose values are all v.
TagMaps(v) == UNION { [K -> {v}] : K \in SUBSET TagKeys }

TemplateConfigs ==
    [template        : {None},
     id              : {None, Some(1)},
     scan_interval   : {None, Some("2ns"), Some("soon")},
     tags            : TagMaps("template"),
     input_registers : {<<>>, <<RegisterConfig_Simple(1)>>}]

SectionConfigs ==
    [template        : {None, Some("foobar"), Some("unknown")},
     id              : {None, Some(7)},
     scan_interval   : {None, Some("3ns"), Some("soon")},
     tags            : TagMaps("device"),
     input_registers : {<<>>,
                        <<RegisterConfig_Advanced(1, "quxbaz", Some("f32"))>>,
                        <<RegisterConfig_Advanced(U16Max, "top", None),
                          RegisterConfig_Advanced(2, "bad", Some("u8"))>>}]

InitConfig ==
    /\ overflow_checks \in BOOLEAN
    /\ devices = <<>>
    /\ templates \in {EmptyMap} \cup { [n \in {"foobar"} |-> t] : t \in TemplateConfigs }
    /\ config \in SectionConfigs
    /\ cfg_result = "none"
    /\ NoPolling
    /\ NoSensor
    /\ NoPure

\* DevicesConfig::into_devices -> device_from_config
IntoDevices ==
    /\ cfg_result = "none"
    /\ cfg_result' = device_from_config_result(templates, config, overflow_checks)
    /\ devices' = IF cfg_result' = "ok"
                  THEN Append(devices, device_from_config(templates, config, overflow_checks))
                  ELSE devices
    /\ UNCHANGED <<overflow_checks, templates, config, pc, now, readVars, taskVars,
                   sensorVars, pureVars>>

NextConfig == IntoDevices

SpecConfig == InitConfig /\ [][NextConfig]_vars

(***************************************************************************)
(* Claims about the configuration merge (SpecConfig).                      *)
(***************************************************************************)
\* The template the section names, when the template map has it.
HasTemplate == config.template # None /\ config.template[1] \in DOMAIN templates
NamedTemplate == templates[config.template[1]]

\* Field f is present in the template scaffold / in the device section.
InScaffold(f) == HasTemplate /\ NamedTemplate[f] # None
InSection(f) == config[f] # None
ExactlyOne(f) == InScaffold(f) # InSection(f)

\* C9: a device section yields a Device only if each of id and scan_interval
\* is present in exactly one of {template scaffold, device section}; if one
\* of them is present in both or in neither, device_from_config fails and no
\* Device is produced; a Device that is produced carries the one value given.
ExclusiveScalarMerge ==
    cfg_result # "none" =>
        /\ cfg_result = "ok" => (ExactlyOne("id") /\ ExactlyOne("scan_interval"))
        /\ ~(ExactlyOne("id") /\ ExactlyOne("scan_interval")) =>
              (cfg_result \in {"panic_id", "panic_scan_interval"} /\ devices = <<>>)
        /\ cfg_result = "ok" =>
              /\ Len(devices) = 1
              /\ Some(devices[1].id) =
                    (IF InSection("id") THEN config.id ELSE NamedTemplate.id)
              /\ Some(devices[1].scan_interval) =
                    parse_duration((IF InSection("scan_interval") THEN config.scan_interval
                                    ELSE NamedTemplate.scan_interval)[1])

\* Witness of C9: the merge ran on a section that repeats a field of its
\* template and was refused.
ExclusiveScalarMergeWitness ==
    /\ cfg_result = "panic_scan_interval"
    /\ InScaffold("scan_interval") /\ InSection("scan_interval")
    /\ ExactlyOne("id")

\* C10: the tags of a device built from a template are the union of the
\* template's and the section's tags; a key of only one of them keeps its
\* value, a key of both takes the section's value.
TemplateTagMerge ==
    (cfg_result = "ok" /\ HasTemplate) =>
        LET t == NamedTemplate.tags
            d == config.tags
            m == devices[1].tags
        IN  /\ DOMAIN m = DOMAIN t \cup DOMAIN d
            /\ \A k \in DOMAIN t \ DOMAIN d : m[k] = t[k]
            /\ \A k \in DOMAIN d : m[k] = d[k]

\* Witness of C10: a built device whose template and section share a tag key
\* and each have a key of their own.
TemplateTagMergeWitness ==
    /\ cfg_result = "ok" /\ HasTemplate
    /\ DOMAIN NamedTemplate.tags \cap DOMAIN config.tags # {}
    /\ DOMAIN NamedTemplate.tags \ DOMAIN config.tags # {}
    /\ DOMAIN config.tags \ DOMAIN NamedTemplate.tags # {}

(***************************************************************************)
(* device.rs: Device::read, one step per blocking point.  The call is made *)
(* on devices[cur]; pc runs "for_req" -> "await_resp" -> "for_req" ... and  *)
(* ends in "read_ok" (Ok(influx_lines)), "read_err" (Err(e)) or "panicked". *)
(***************************************************************************)
\* modbus::Error, as far as read_input_registers returns it.
ModbusErrors == {"Io", "Exception", "InvalidResponse", "InvalidData", "InvalidFunction"}

\* Request::len: `self.end - self.start` in u16 arithmetic.
Request_len(req) == (req.end - req.start) % (U16Max + 1)
Request_len_overflows(req) == req.end < req.start

\* `(timestamp / interval) * interval`
Quantize(timestamp, interval) == (timestamp \div interval) * interval

\* `register_map.range(req.start..req.end)`: the addresses in [start, end),
\* ascending; BTreeMap::range panics when start > end.
RangePanics(req) == req.start > req.end
Range(map, req) == SortedKeys({ a \in DOMAIN map : req.start <= a /\ a < req.end })

\* `let start_idx = (addr - req.start) as usize;`
StartIdx(addr, req) == addr - req.start

\* `&resp[start_idx..]` followed by parse_data's data[0] .. data[width - 1]:
\* an index past the response panics.
SlicePanics(map, req, resp_len) ==
    \E a \in DOMAIN map :
        /\ req.start <= a /\ a < req.end
        /\ StartIdx(a, req) + num_registers(map[a].data_type) > resp_len

\* The slices `&resp[start_idx..]` handed to parse_data for one response, in
\* the order of the range: where each begins and how many words it holds.
Slices(d, req, resp_len) ==
    [i \in 1..Len(Range(d.map, req)) |->
        LET a == Range(d.map, req)[i]
        IN  [addr      |-> a,
             req       |-> req,
             resp_len  |-> resp_len,
             start_idx |-> StartIdx(a, req),
             len       |-> resp_len - StartIdx(a, req),
             data_type |-> d.map[a].data_type]]

\* The lines pushed for one response, all stamped with `timestamp`.
InfluxLines(d, req, timestamp) ==
    [i \in 1..Len(Range(d.map, req)) |->
        [addr |-> Range(d.map, req)[i], timestamp |-> timestamp]]

\* The unit id a request is addressed to: read ignores the transport's
\* current unit id ...
StaleUid(d, transport) == transport.uid

\* ... `mb.set_uid(self.id)` precedes every read_input_registers.
RequestUid(d, transport) == d.id

\* The two calls of one iteration, made with the read before the unit id.
IssueCallsReadFirst(d, req) ==
    <<[op |-> "read_input_registers", arg |-> <<req.start, Request_len(req)>>],
      [op |-> "set_uid", arg |-> <<d.id>>]>>

\* `mb.set_uid(self.id); mb.read_input_registers(req.start, req.len())`
IssueCalls(d, req) ==
    <<[op |-> "set_uid", arg |-> <<d.id>>],
      [op |-> "read_input_registers", arg |-> <<req.start, Request_len(req)>>]>>

\* The caller enters Device::read: `let mut influx_lines = String::new();`
EnterRead ==
    /\ pc' = "for_req"
    /\ req_idx' = 1
    /\ influx_lines' = <<>>
    /\ result' = "none"
    /\ read_errors' = 0
    /\ calls' = <<>>
    /\ slices' = <<>>

\* `for req in &self.input_registers.requests` is exhausted: Ok(influx_lines)
ReadReturnOk ==
    /\ pc = "for_req"
    /\ req_idx > Len(devices[cur].requests)
    /\ pc' = "read_ok"
    /\ result' = "Ok"
    /\ UNCHANGED <<overflow_checks, devices, cfgVars, req_idx, mb, now,
                   influx_lines, read_errors, calls, slices, taskVars,
                   sensorVars, pureVars>>

\* `mb.set_uid(self.id); mb.read_input_registers(req.start, req.len())`:
\* the request goes on the wire.
ReadIssue ==
    /\ pc = "for_req"
    /\ req_idx <= Len(devices[cur].requests)
    /\ LET d   == devices[cur]
           req == d.requests[req_idx]
       IN  IF overflow_checks /\ Request_len_overflows(req)
           THEN /\ pc' = "panicked"
                /\ mb' = [mb EXCEPT !.uid = RequestUid(d, mb)]
                /\ calls' = Append(calls, IssueCalls(d, req)[1])
           ELSE /\ pc' = "await_resp"
                /\ calls' = calls \o IssueCalls(d, req)
                /\ mb' = [uid |-> RequestUid(d, mb),
                          inflight |-> mb.inflight \cup
                              {[uid |-> RequestUid(d, mb), start |-> req.start,
                                len |-> Request_len(req)]}]
    /\ UNCHANGED <<overflow_checks, devices, cfgVars, req_idx, now,
                   influx_lines, result, read_errors, slices, taskVars,
                   sensorVars, pureVars>>

\* The response arrives with the words asked for: the timestamp is taken
\* and one line per register of the request is pushed.
ReadResponse ==
    /\ pc = "await_resp"
    /\ LET d   == devices[cur]
           req == d.requests[req_idx]
       IN  IF RangePanics(req) \/ SlicePanics(d.map, req, Request_len(req))
           THEN /\ pc' = "panicked"
                /\ UNCHANGED <<req_idx, influx_lines, slices>>
           ELSE /\ pc' = "for_req"
                /\ req_idx' = req_idx + 1
                /\ slices' = slices \o Slices(d, req, Request_len(req))
                /\ influx_lines' = influx_lines \o
                       InfluxLines(d, req, Quantize(now, d.scan_interval))
    /\ mb' = [mb EXCEPT !.inflight = {}]
    /\ UNCHANGED <<overflow_checks, devices, cfgVars, now, result, read_errors, calls,
                   taskVars, sensorVars, pureVars>>

\* read_input_registers fails: `?` returns the error, the lines are dropped.
ReadError ==
    /\ pc = "await_resp"
    /\ fail_count < MaxFail
    /\ \E e \in ModbusErrors : result' = e
    /\ pc' = "read_err"
    /\ influx_lines' = <<>>
    /\ read_errors' = read_errors + 1
    /\ mb' = [mb EXCEPT !.inflight = {}]
    /\ UNCHANGED <<overflow_checks, devices, cfgVars, req_idx, now, calls, slices,
                   taskVars, sensorVars, pureVars>>

\* The wall clock advances.
Tick ==
    /\ now < MaxClock
    /\ now' = now + 1
    /\ UNCHANGED <<overflow_checks, devices, cfgVars, pc, readVars, taskVars,
                   sensorVars, pureVars>>

(***************************************************************************)
(* SpecRead: one device, read again and again while the clock runs.        *)
(***************************************************************************)
ScanIntervals == {2, 3}

\* The maps of the devices that are read: one data type of each width.
ReadMaps ==
    UNION { [S -> {Register(dt, "r") : dt \in {"U16", "I32", "F64"}}] :
            S \in { T \in SUBSET AddrSpace : Cardinality(T) <= MaxReadRegs } }

InitRead ==
    /\ overflow_checks \in BOOLEAN
    /\ \E m \in ReadMaps, si \in ScanIntervals :
          devices = <<DeviceArgs(1, si, EmptyMap, m)>>
    /\ NoConfig
    /\ NoPolling
    /\ NoSensor
    /\ NoPure

\* A caller hands the transport to Device::read.
CallRead ==
    /\ pc = "idle"
    /\ devices[cur].state = "built"
    /\ EnterRead
    /\ UNCHANGED <<overflow_checks, devices, cfgVars, mb, now, taskVars,
                   sensorVars, pureVars>>

\* The caller takes the result.
ReturnRead ==
    /\ pc \in {"read_ok", "read_err"}
    /\ pc' = "idle"
    /\ UNCHANGED <<overflow_checks, devices, cfgVars, now, readVars, taskVars,
                   sensorVars, pureVars>>

NextRead ==
    \/ Device_new
    \/ CallRead
    \/ ReadIssue
    \/ ReadResponse
    \/ ReadError
    \/ ReadReturnOk
    \/ ReturnRead
    \/ Tick

SpecRead == InitRead /\ [][NextRead]_vars

(***************************************************************************)
(* Claims about Device::read (SpecRead).                                   *)
(***************************************************************************)
\* C3 (as claimed): all lines produced by one Device::read call carry the
\* same timestamp, however the clock advances between the reads of the
\* call, and that timestamp is a multiple of the scan interval.
TimestampQuantization ==
    /\ \A i, j \in 1..Len(influx_lines) :
          influx_lines[i].timestamp = influx_lines[j].timestamp
    /\ \A i \in 1..Len(influx_lines) :
          influx_lines[i].timestamp % devices[cur].scan_interval = 0

\* What the code does guarantee: every timestamp is a multiple of the scan
\* interval, and the lines of one response share one timestamp.
TimestampDivisible ==
    \A i \in 1..Len(influx_lines) :
        influx_lines[i].timestamp % devices[cur].scan_interval = 0

(***************************************************************************)
(* The Controller: the failure counter and its threshold.  The counter is  *)
(* an observer of the outcomes of the polling loop; it does not steer it.  *)
(***************************************************************************)
\* A success that forgets every earlier failure.
Controller_reset(fc) == 0

\* On failure: fail_count += 1.
Controller_failure(fc) == fc + 1

\* On success: fail_count = max(0, fail_count - 1).
Controller_success(fc) == IF fc - 1 > 0 THEN fc - 1 ELSE 0

CeilDiv(a, b) == (a + b - 1) \div b

\* threshold = 2 * device_count * ceil(max_scan_interval / min_scan_interval)
Threshold ==
    LET si == { devices[i].scan_interval : i \in 1..Len(devices) }
    IN  2 * Len(devices) * CeilDiv(Max(si), Min(si))

(***************************************************************************)
(* main.rs: connection_task and the reconnect loop of main.  The units it  *)
(* polls are the devices; the read it calls returns Ok(lines) or           *)
(* Err(modbus::Error), the error type its match is written for.            *)
(***************************************************************************)
\* The errors of the arm that logs at error level and panics.
FatalErrors == {"Exception", "InvalidData", "InvalidFunction"}

\* The lines of one read, as they stand in the body of the post.
Tagged(dev, blob) == [i \in 1..Len(blob) |->
                        [dev |-> dev, addr |-> blob[i].addr,
                         timestamp |-> blob[i].timestamp]]

\* main: `Transport::new_with_cfg(..)`; Ok enters connection_task (its first
\* pass starts), Err is logged and followed by the reconnect delay.
Connect ==
    /\ pc = "connect"
    /\ \/ /\ pc' = "for_sensor"
          /\ mb' = [uid |-> InitialUid, inflight |-> {}]
          /\ lines' = <<>>
          /\ cur' = 1
          /\ UNCHANGED log
       \/ /\ pc' = "reconnect"
          /\ log' = "error"
          /\ UNCHANGED <<mb, lines, cur>>
    /\ UNCHANGED <<overflow_checks, devices, cfgVars, now, req_idx, influx_lines,
                   result, read_errors, calls, slices, outcome, fail_count, sensorVars, pureVars>>

\* main: `thread::sleep(delay)`, then the loop connects again.
Reconnect ==
    /\ pc = "reconnect"
    /\ pc' = "connect"
    /\ UNCHANGED <<overflow_checks, devices, cfgVars, now, readVars, taskVars,
                   sensorVars, pureVars>>

\* `for sensor in &mut sensors { match sensor.read_registers(&mut mb)`
ForSensor ==
    /\ pc = "for_sensor"
    /\ cur <= Len(devices)
    /\ EnterRead
    /\ UNCHANGED <<overflow_checks, devices, cfgVars, now, mb, taskVars,
                   sensorVars, pureVars>>

\* `Ok(register_values) => lines.push_str(..)`
ReadOkArm ==
    /\ pc = "read_ok"
    /\ lines' = lines \o Tagged(cur, influx_lines)
    /\ cur' = cur + 1
    /\ pc' = "for_sensor"
    /\ UNCHANGED <<overflow_checks, devices, cfgVars, now, readVars, log, outcome,
                   fail_count, sensorVars, pureVars>>

\* `Err(e) => match e`: a protocol error is logged at error level and the
\* process panics; any other error is logged at warn level and the loop
\* goes on.  Either way the Controller sees one failure.
ReadErrArm ==
    /\ pc = "read_err"
    /\ IF result \in FatalErrors
       THEN /\ log' = "error"
            /\ pc' = "panicked"
            /\ UNCHANGED cur
       ELSE /\ log' = "warn"
            /\ pc' = "for_sensor"
            /\ cur' = cur + 1
    /\ outcome' = "failure"
    /\ fail_count' = Controller_failure(fail_count)
    /\ UNCHANGED <<overflow_checks, devices, cfgVars, now, readVars, lines,
                   sensorVars, pureVars>>

\* `if lines.is_empty() { return Err(..) }`: connection_task ends, main logs
\* the error and goes to the reconnect delay.
AllFailed ==
    /\ pc = "for_sensor"
    /\ cur > Len(devices)
    /\ lines = <<>>
    /\ pc' = "reconnect"
    /\ log' = "error"
    /\ UNCHANGED <<overflow_checks, devices, cfgVars, now, readVars, cur, lines,
                   outcome, fail_count, sensorVars, pureVars>>

\* `http_req.try_clone().unwrap().body(lines).send()`, the warn on a refused
\* or failed post, `thread::sleep(scan_interval)` and the start of the next
\* pass.  The Controller sees the post succeed or fail.
Send ==
    /\ pc = "for_sensor"
    /\ cur > Len(devices)
    /\ lines # <<>>
    /\ \/ /\ outcome' = "success"
          /\ fail_count' = Controller_success(fail_count)
          /\ UNCHANGED log
       \/ /\ fail_count < MaxFail
          /\ outcome' = "failure"
          /\ fail_count' = Controller_failure(fail_count)
          /\ log' = "warn"
    /\ lines' = <<>>
    /\ cur' = 1
    /\ UNCHANGED <<overflow_checks, devices, cfgVars, pc, now, readVars,
                   sensorVars, pureVars>>

(***************************************************************************)
(* Spec: the process polling a fleet of devices.                           *)
(***************************************************************************)
\* A device of the fleet has k registers at 0, 2, .., one request each.
PollMaps ==
    { [a \in { 2 * j : j \in 0..(k - 1) } |-> Register("U16", "r")] : k \in 0..MaxPollRegs }

Fleets ==
    { f \in [1..NumDevices -> PollMaps \X ScanIntervals] : TRUE }

Init ==
    /\ overflow_checks \in BOOLEAN
    /\ \E f \in Fleets :
          devices = [i \in 1..NumDevices |->
                        Device(i, f[i][2], EmptyMap, f[i][1], overflow_checks)]
    /\ NoConfig
    /\ NoSensor
    /\ pc = "connect"
    /\ cur = 1
    /\ req_idx = 1
    /\ mb = [uid |-> InitialUid, inflight |-> {}]
    /\ now = 0
    /\ influx_lines = <<>>
    /\ result = "none"
    /\ lines = <<>>
    /\ log = "none"
    /\ read_errors = 0
    /\ outcome = "none"
    /\ fail_count = 0
    /\ calls = <<>>
    /\ slices = <<>>
    /\ NoPure

Next ==
    \/ Connect
    \/ Reconnect
    \/ ForSensor
    \/ ReadIssue
    \/ ReadResponse
    \/ ReadError
    \/ ReadReturnOk
    \/ ReadOkArm
    \/ ReadErrArm
    \/ AllFailed
    \/ Send

Spec == Init /\ [][Next]_vars

(***************************************************************************)
(* Claims about the polling loop (Spec).                                   *)
(***************************************************************************)
\* The step that hands an outcome to the Controller: the Err arm of the
\* read, or the post of a pass.
OutcomeStep ==
    \/ pc = "read_err" /\ pc' # "read_err"
    \/ pc = "for_sensor" /\ cur > Len(devices) /\ lines # <<>> /\ cur' = 1

\* C5: fail_count starts at 0 and is never negative; a failed outcome (a
\* failed read or a failed post) adds exactly 1, a successful outcome sets
\* it to max(0, fail_count - 1), and nothing else changes it.
ControllerCounter ==
    /\ fail_count = 0
    /\ [](fail_count >= 0)
    /\ [][/\ (pc = "read_err" /\ pc' # "read_err") => outcome' = "failure"
          /\ (OutcomeStep /\ outcome' = "failure") => fail_count' = fail_count + 1
          /\ (OutcomeStep /\ outcome' = "success") =>
                /\ fail_count' = (IF fail_count > 1 THEN fail_count - 1 ELSE 0)
                /\ fail_count' >= fail_count - 1
          /\ ~OutcomeStep => fail_count' = fail_count]_vars

\* Witness of C5: after a run of failures a success has lowered the counter
\* by one and left it above zero.
ControllerCounterWitness == outcome = "success" /\ fail_count >= 2

\* The process has ended.
Terminated == pc = "panicked"

\* The process ends as soon as fail_count >= threshold is observed ...
HaltsAtThreshold == fail_count >= Threshold => Terminated
\* ... and failures do not end it before that.
NoHaltBelowThreshold == Terminated => fail_count >= Threshold

\* C6 (as claimed): the process ends because of failures exactly when
\* fail_count >= threshold has been reached: not before, and without
\* polling or reconnecting any further after.
ControllerTermination == HaltsAtThreshold /\ NoHaltBelowThreshold

\* C7 (as claimed): a Modbus exception, invalid-data or invalid-function
\* error of one device is handled like an I/O error: it is logged at warn
\* level, the loop goes on with the next device, the process does not
\* panic.
ProtocolErrorNotFatal ==
    [][(pc = "read_err" /\ result \in FatalErrors) =>
          (pc' = "for_sensor" /\ cur' = cur + 1 /\ log' = "warn")]_vars

\* What the code does with the other errors (I/O, timeout, invalid
\* response): warn, and on to the next device.
TransportErrorNotFatal ==
    [][(pc = "read_err" /\ result \notin FatalErrors) =>
          (pc' = "for_sensor" /\ cur' = cur + 1 /\ log' = "warn")]_vars

\* C8: at most one request is on the wire, and a request on the wire is
\* addressed to the unit id of the device whose read is running: no read
\* of another device is issued before that read has returned.
TransportSerialization ==
    /\ Cardinality(mb.inflight) <= 1
    /\ mb.inflight # {} => pc = "await_resp"
    /\ \A r \in mb.inflight :
          /\ r.uid = devices[cur].id
          /\ r.start = devices[cur].requests[req_idx].start
    /\ pc \in {"for_req", "await_resp", "read_ok", "read_err"} => cur \in 1..Len(devices)

\* Witness of C8: the second request of the second device is on the wire,
\* after the reads of the first device.
TransportSerializationWitness ==
    /\ pc = "await_resp"
    /\ cur = 2
    /\ req_idx = 2
    /\ mb.inflight # {}
    /\ Len(devices[1].requests) = 2

\* Device::read after a failed read_input_registers: the call is over, it
\* returns the error, it holds no line, and the pass holds no line of the
\* device.
DeviceReadAborts ==
    read_errors > 0 =>
        /\ read_errors = 1
        /\ pc \notin {"for_req", "await_resp", "read_ok"}
        /\ influx_lines = <<>>
        /\ pc = "read_err" =>
              /\ result \in ModbusErrors
              /\ \A i \in 1..Len(lines) : lines[i].dev # cur

(***************************************************************************)
(* sensor.rs: RegisterMap::group_registers and Sensor::read_registers.     *)
(***************************************************************************)
\* One iteration of `for addr in addrs`: a group is (start, count).
PushAddr(groups, addr) ==
    LET n == Len(groups)
    IN  IF n > 0 /\ addr = groups[n][1] + groups[n][2]
        THEN [groups EXCEPT ![n] = <<groups[n][1], groups[n][2] + 1>>]
        ELSE Append(groups, <<addr, 1>>)

RECURSIVE GroupFold(_, _)
GroupFold(addrs, groups) ==
    IF addrs = <<>> THEN groups
    ELSE GroupFold(Tail(addrs), PushAddr(groups, Head(addrs)))

\* RegisterMap::group_registers on the sorted keys of the register map.
group_registers(addrs) == GroupFold(SortedKeys(addrs), <<>>)

\* Sensor::new over RegisterMap::new(registers)
Sensor(id, registers) ==
    [id |-> id, registers |-> registers, read_groups |-> group_registers(registers)]

\* `(param.0..param.0 + param.1)`: the addresses of a group; the sum is u16
\* arithmetic, and a wrapped end leaves the range empty.
GroupOverflows(param) == param[1] + param[2] > U16Max
GroupRange(param) == param[1] .. (((param[1] + param[2]) % (U16Max + 1)) - 1)

\* `mb.set_slave(self.id)` and `let mut result = HashMap::new()`
SensorCall ==
    /\ pc = "idle"
    /\ pc' = "s_for"
    /\ req_idx' = 1
    /\ values' = {}
    /\ result' = "none"
    /\ read_errors' = 0
    /\ log' = "none"
    /\ mb' = [mb EXCEPT !.uid = sensor.id]
    /\ UNCHANGED <<overflow_checks, devices, cfgVars, now, influx_lines, calls, slices,
                   cur, lines, outcome, fail_count, sensor, pureVars>>

\* `mb.read_input_registers(param.0, param.1)`: the request goes on the wire.
SensorIssue ==
    /\ pc = "s_for"
    /\ req_idx <= Len(sensor.read_groups)
    /\ pc' = "s_await"
    /\ mb' = [mb EXCEPT !.inflight = mb.inflight \cup
                  {[uid |-> mb.uid, start |-> sensor.read_groups[req_idx][1],
                    len |-> sensor.read_groups[req_idx][2]]}]
    /\ UNCHANGED <<overflow_checks, devices, cfgVars, now, req_idx, influx_lines,
                   result, read_errors, calls, slices, taskVars, sensorVars, pureVars>>

\* `Ok(values) => result.extend(..)`
SensorResponse ==
    /\ pc = "s_await"
    /\ LET param == sensor.read_groups[req_idx]
       IN  IF overflow_checks /\ GroupOverflows(param)
           THEN pc' = "panicked" /\ UNCHANGED <<req_idx, values>>
           ELSE /\ pc' = "s_for"
                /\ req_idx' = req_idx + 1
                /\ values' = values \cup GroupRange(param)
    /\ mb' = [mb EXCEPT !.inflight = {}]
    /\ UNCHANGED <<overflow_checks, devices, cfgVars, now, influx_lines, result,
                   read_errors, calls, slices, taskVars, sensor, pureVars>>

\* `Err(e) => match e { ModbusError::Io(e) => return Err(e), ..`
SensorErrorIo ==
    /\ pc = "s_await"
    /\ pc' = "read_err"
    /\ result' = "Io"
    /\ read_errors' = read_errors + 1
    /\ values' = {}
    /\ mb' = [mb EXCEPT !.inflight = {}]
    /\ UNCHANGED <<overflow_checks, devices, cfgVars, now, req_idx, influx_lines,
                   calls, slices, taskVars, sensor, pureVars>>

\* `.. _ => warn!("Modbus: {}", e)`: any other error is logged and the loop
\* goes on with the next group.
SensorErrorOther ==
    /\ pc = "s_await"
    /\ \E e \in ModbusErrors \ {"Io"} : result' = e
    /\ read_errors' = read_errors + 1
    /\ log' = "warn"
    /\ pc' = "s_for"
    /\ req_idx' = req_idx + 1
    /\ mb' = [mb EXCEPT !.inflight = {}]
    /\ UNCHANGED <<overflow_checks, devices, cfgVars, now, influx_lines, calls, slices,
                   cur, lines, outcome, fail_count, sensorVars, pureVars>>

\* `Ok(result)` after the last group.
SensorReturnOk ==
    /\ pc = "s_for"
    /\ req_idx > Len(sensor.read_groups)
    /\ pc' = "read_ok"
    /\ UNCHANGED <<overflow_checks, devices, cfgVars, now, readVars, taskVars,
                   sensorVars, pureVars>>

(***************************************************************************)
(* SpecSensor: one Sensor, read again and again.                           *)
(***************************************************************************)
SensorAddrs == (0..MaxSensorAddr) \cup {U16Max}

InitSensor ==
    /\ overflow_checks \in BOOLEAN
    /\ devices = <<>>
    /\ NoConfig
    /\ NoPolling
    /\ \E regs \in SUBSET SensorAddrs : sensor = Sensor(1, regs)
    /\ values = {}
    /\ NoPure

NextSensor ==
    \/ SensorCall
    \/ SensorIssue
    \/ SensorResponse
    \/ SensorErrorIo
    \/ SensorErrorOther
    \/ SensorReturnOk
    \/ ReturnRead

SpecSensor == InitSensor /\ [][NextSensor]_vars

(***************************************************************************)
(* Claims about one read of a device (SpecSensor, Spec, SpecRead).         *)
(***************************************************************************)
\* C4 (as claimed): the first error of a read_input_registers call, of
\* whatever kind, ends the read of the device at once: no further interval
\* is read, the call returns the error, and nothing read for the device in
\* that call is kept or emitted.
NoPartialResultOnError ==
    read_errors > 0 =>
        /\ read_errors = 1
        /\ pc \notin {"for_req", "await_resp", "s_for", "s_await", "read_ok"}
        /\ influx_lines = <<>>
        /\ values = {}
        /\ pc = "read_err" =>
              /\ result \in ModbusErrors
              /\ \A i \in 1..Len(lines) : lines[i].dev # cur

(***************************************************************************)
(* SpecDecode: DataType::parse_data called on an arbitrary data type and   *)
(* word slice.                                                             *)
(***************************************************************************)
\* A slice holds at most MaxWords words.
MaxWords == 4

\* The words of a slice: the ends of the unsigned and of the signed range,
\* and the words of test_register_parse_data (0x2468, 0xACF0).
WordSamples == {0, 1, 9320, I16Min - 1, I16Min, 44272, U16Max}

DataSlices == UNION { [1..n -> WordSamples] : n \in 0..MaxWords }

InitDecode ==
    /\ overflow_checks \in BOOLEAN
    /\ devices = <<>>
    /\ NoConfig
    /\ NoPolling
    /\ NoSensor
    /\ parse_call \in [self : DataType, data : DataSlices]
    /\ parse_ret = NoReturn
    /\ enc_call = [measurement |-> <<>>, tags |-> <<>>]
    /\ enc_ret = NoLine

\* `reg.data_type.parse_data(data)`
ParseData ==
    /\ parse_ret.state = "none"
    /\ parse_ret' =
          IF parse_data_panics(parse_call.self, parse_call.data)
          THEN [NoReturn EXCEPT !.state = "panic"]
          ELSE [state |-> "returned",
                value |-> parse_data(parse_call.self, parse_call.data)]
    /\ UNCHANGED <<overflow_checks, devices, cfgVars, pc, now, readVars, taskVars,
                   sensorVars, parse_call, enc_call, enc_ret>>

NextDecode == ParseData

SpecDecode == InitDecode /\ [][NextDecode]_vars

(***************************************************************************)
(* Claims about parse_data (SpecDecode).                                   *)
(***************************************************************************)
\* x + y = 0 modulo 2^32, for x and y written as two 16-bit words each.
SumIsZero32(x, y) ==
    /\ (x[2] + y[2]) % (U16Max + 1) = 0
    /\ (x[1] + y[1] + ((x[2] + y[2]) \div (U16Max + 1))) % (U16Max + 1) = 0

\* C11: for a slice W of at least width words parse_data returns, and its
\* value depends on the first width words only, most significant first:
\* U16 gives W[0]; U32 gives (W[0] << 16) | W[1] unsigned; I16 gives W[0] as
\* a two's-complement 16-bit value; I32 gives (W[0] << 16) | W[1] as a
\* two's-complement 32-bit value, the low word never sign-extended.
IntegerDecoding ==
    LET W  == parse_call.data
        dt == parse_call.self
        v  == parse_ret.value
    IN  /\ parse_ret.state = "panic" => Len(W) < num_registers(dt)
        /\ (parse_ret.state = "returned" /\ dt \in {"U16", "U32", "I16", "I32"}) =>
              /\ v.kind = "int"
              /\ dt = "U16" => (~v.neg /\ v.bits = <<0, W[1]>>)
              /\ dt = "U32" => (~v.neg /\ v.bits = <<W[1], W[2]>>)
              /\ dt = "I16" =>
                    IF W[1] < I16Min THEN ~v.neg /\ v.bits = <<0, W[1]>>
                    ELSE v.neg /\ v.bits[1] = 0 /\ v.bits[2] + W[1] = U16Max + 1
              /\ dt = "I32" =>
                    IF W[1] < I16Min THEN ~v.neg /\ v.bits = <<W[1], W[2]>>
                    ELSE v.neg /\ SumIsZero32(v.bits, <<W[1], W[2]>>)

\* Witness of C11: an I32 decoded from a slice longer than its width, with
\* the top bit set in the high and in the low word.
IntegerDecodingWitness ==
    /\ parse_ret.state = "returned"
    /\ parse_call.self = "I32"
    /\ Len(parse_call.data) > 2
    /\ parse_call.data[1] >= I16Min
    /\ parse_call.data[2] >= I16Min

(***************************************************************************)
(* SpecEncode: influxdb_line called the way Device::read calls it, with a  *)
(* register name, one tag of the device or register, and the modbus_id     *)
(* tag that read chains behind them.                                       *)
(***************************************************************************)
\* A measurement name has at most MaxNameLen characters, a tag key or value
\* at most MaxTagLen.
MaxNameLen == 2
MaxTagLen == 1

\* The characters of names and tags: a plain one, the three the encoder
\* escapes, and the backslash it escapes them with.
Alphabet == {"a", ",", " ", "=", "\\"}

Texts(n) == UNION { [1..k -> Alphabet] : k \in 0..n }

\* `iter::once(("modbus_id", id_string.as_str()))`
ModbusIdTag == << <<"m", "o", "d", "b", "u", "s", "_", "i", "d">>, <<"1">> >>

InitEncode ==
    /\ overflow_checks \in BOOLEAN
    /\ devices = <<>>
    /\ NoConfig
    /\ NoPolling
    /\ NoSensor
    /\ parse_call = [self |-> "U16", data |-> <<>>]
    /\ parse_ret = NoReturn
    /\ \E m \in Texts(MaxNameLen), k \in Texts(MaxTagLen), v \in Texts(MaxTagLen) :
          enc_call = [measurement |-> m, tags |-> << <<k, v>>, ModbusIdTag >>]
    /\ enc_ret = NoLine

\* `influx_lines.push_str(&influxdb_line(&reg.name, tag_iter, value, timestamp))`
InfluxdbLine ==
    /\ enc_ret.state = "none"
    /\ enc_ret' = [state |-> "returned",
                   line  |-> influxdb_line(enc_call.measurement, enc_call.tags,
                                           <<"1">>, <<"0">>)]
    /\ UNCHANGED <<overflow_checks, devices, cfgVars, pc, now, readVars, taskVars,
                   sensorVars, parse_call, parse_ret, enc_call>>

NextEncode == InfluxdbLine

SpecEncode == InitEncode /\ [][NextEncode]_vars

(***************************************************************************)
(* Claims about influxdb_line (SpecEncode).  The reader of a line splits   *)
(* it on unescaped separators and unescapes the pieces with the inverse    *)
(* rules: `\,` -> `,`, `\ ` -> ` `, `\=` -> `=`.                           *)
(***************************************************************************)
Escapable == {",", " ", "="}

\* At position i of s stands an escape pair.
EscapedAt(s, i) == i < Len(s) /\ s[i] = "\\" /\ s[i + 1] \in Escapable

RECURSIVE Unescape(_)
Unescape(s) ==
    IF s = <<>> THEN <<>>
    ELSE IF EscapedAt(s, 1) THEN <<s[2]>> \o Unescape(SubSeq(s, 3, Len(s)))
    ELSE <<s[1]>> \o Unescape(Tail(s))

\* The position of the first unescaped `sep` of s at or after i; 0 if none.
RECURSIVE FirstUnescaped(_, _, _)
FirstUnescaped(s, sep, i) ==
    IF i > Len(s) THEN 0
    ELSE IF EscapedAt(s, i) THEN FirstUnescaped(s, sep, i + 2)
    ELSE IF s[i] = sep THEN i
    ELSE FirstUnescaped(s, sep, i + 1)

\* s cut at every unescaped `sep`.
RECURSIVE SplitUnescaped(_, _)
SplitUnescaped(s, sep) ==
    LET i == FirstUnescaped(s, sep, 1)
    IN  IF i = 0 THEN <<s>>
        ELSE <<SubSeq(s, 1, i - 1)>> \o SplitUnescaped(SubSeq(s, i + 1, Len(s)), sep)

\* The key and the value of one `key=value` piece.
ParseTag(p) ==
    LET i == FirstUnescaped(p, "=", 1)
    IN  IF i = 0 THEN <<Unescape(p)>>
        ELSE <<Unescape(SubSeq(p, 1, i - 1)), Unescape(SubSeq(p, i + 1, Len(p)))>>

\* The measurement and the tags a reader takes from a line.
ParseLine(line) ==
    LET head  == SplitUnescaped(line, " ")[1]
        parts == SplitUnescaped(head, ",")
    IN  [measurement |-> Unescape(parts[1]),
         tags        |-> [j \in 1..(Len(parts) - 1) |-> ParseTag(parts[j + 1])]]

Contains(s, chars) == \E i \in 1..Len(s) : s[i] \in chars

\* Some text handed to influxdb_line contains a character of `chars`.
CallContains(chars) ==
    \/ Contains(enc_call.measurement, chars)
    \/ \E j \in 1..Len(enc_call.tags) :
          Contains(enc_call.tags[j][1], chars) \/ Contains(enc_call.tags[j][2], chars)

\* C12 (as claimed): for any measurement name, tag key or tag value that
\* contains `,`, ` ` or `=`, over all texts of an alphabet that holds these
\* characters and the backslash, the line of influxdb_line read back with
\* the inverse escape rules yields exactly the original measurement and the
\* original tag key/value pairs.
EscapeRoundTrip ==
    (enc_ret.state = "returned" /\ CallContains(Escapable)) =>
        ParseLine(enc_ret.line) = enc_call

\* What the encoder does guarantee: the round trip of texts that hold no
\* backslash.
EscapeRoundTripWithoutBackslash ==
    (enc_ret.state = "returned" /\ ~CallContains({"\\"})) =>
        ParseLine(enc_ret.line) = enc_call

(***************************************************************************)
(* Claims about the protocol of one Device::read (SpecRead).               *)
(***************************************************************************)
\* A Device::read call is running, or has returned to a caller that has not
\* yet taken the result.
InRead == pc \in {"for_req", "await_resp", "read_ok", "read_err"}

\* The number of requests the read call has issued.
Issued == Len(calls) \div 2

\* The word count of a plan interval: end - start in 16-bit arithmetic.
IntervalCount(req) ==
    IF req.end >= req.start THEN req.end - req.start
    ELSE req.end - req.start + U16Max + 1

\* C13: during one Device::read the unit id of the device is set on the
\* transport before each read_input_registers call; the requests follow the
\* plan in strictly ascending start order; each asks for (start, end - start)
\* of one plan interval; a successful read has requested every plan interval
\* exactly once.
ReadProtocolOrder ==
    LET d == devices[cur]
        r == d.requests
    IN  InRead =>
          /\ Len(calls) = 2 * Issued
          /\ Issued <= Len(r)
          /\ \A k \in 1..Issued :
                /\ calls[2 * k - 1] = [op |-> "set_uid", arg |-> <<d.id>>]
                /\ calls[2 * k] = [op  |-> "read_input_registers",
                                   arg |-> <<r[k].start, IntervalCount(r[k])>>]
          /\ \A k \in 1..(Issued - 1) : calls[2 * k].arg[1] < calls[2 * k + 2].arg[1]
          /\ pc = "for_req" => Issued = req_idx - 1
          /\ pc = "await_resp" => Issued = req_idx
          /\ pc = "read_ok" => Issued = Len(r)

\* Witness of C13: a read of a plan of two intervals has returned Ok after
\* two requests.
ReadProtocolOrderWitness ==
    /\ pc = "read_ok"
    /\ Len(devices[cur].requests) = 2
    /\ Issued = 2

\* The slices taken so far lie within their responses.
SlicesInBounds ==
    /\ \A i \in 1..Len(slices) :
          LET s == slices[i]
              w == num_registers(s.data_type)
          IN  s.resp_len = IntervalCount(s.req) =>
                /\ s.start_idx = s.addr - s.req.start
                /\ 0 <= s.start_idx /\ s.start_idx < s.resp_len
                /\ s.len = s.resp_len - s.start_idx
                /\ s.len >= w
                /\ (s.len = w) <=> (s.addr + w = s.req.end)

\* The response awaited, of exactly end - start words, will not make a
\* slice or parse_data index outside it.
ResponseInBounds ==
    (pc = "await_resp" /\ ~RangePanics(devices[cur].requests[req_idx])) =>
        ~SlicePanics(devices[cur].map, devices[cur].requests[req_idx],
                     IntervalCount(devices[cur].requests[req_idx]))

\* C14 (as claimed): when the transport returns exactly end - start words
\* for a request [start, end), the slice handed to parse_data for a register
\* at address a of that interval begins at offset a - start of the response,
\* with 0 <= a - start < response length, and holds at least
\* width(data_type) words, so that decoding never indexes outside the
\* response; the slice holds exactly width words exactly when
\* a + width = end.
DecodeSliceBounds == SlicesInBounds /\ ResponseInBounds

\* What the code does guarantee: the same, for the devices none of whose
\* registers reaches past address 65535.
DecodeSliceBoundsBelowU16Max ==
    (pc \in {"for_req", "await_resp", "read_ok"} /\ ~HasOverflow(devices[cur])) =>
        DecodeSliceBounds

\* The register addresses of the lines of a blob, in the order of the lines.
LineAddrs(blob) == [i \in 1..Len(blob) |-> blob[i].addr]

\* C16 (as claimed): a Device::read that returns Ok returns exactly one line
\* for every register configured on the device, none skipped and none
\* twice, in ascending order of the register addresses; the blob is empty
\* if and only if the device has no register.
OneLinePerRegister ==
    pc = "read_ok" =>
        /\ LineAddrs(influx_lines) = SortedKeys(DOMAIN devices[cur].map)
        /\ (influx_lines = <<>>) <=> (DOMAIN devices[cur].map = {})

\* What the code does guarantee: one line per register, in ascending
\* order, for the devices none of whose registers reaches past address
\* 65535.
OneLinePerRegisterBelowU16Max ==
    (pc = "read_ok" /\ ~HasOverflow(devices[cur])) =>
        /\ LineAddrs(influx_lines) = SortedKeys(DOMAIN devices[cur].map)
        /\ (influx_lines = <<>>) <=> (DOMAIN devices[cur].map = {})

(***************************************************************************)
(* Claims about the construction of the plan (SpecPlan).                   *)
(***************************************************************************)
\* C15 (as claimed): for every map from 16-bit addresses to registers of
\* any data type Registers::new returns a plan without failing, and every
\* interval end it computes is the true sum a + width, without overflow or
\* wrap-around, also for registers whose last word lies at or beyond
\* address 65535.
PlanInfallible ==
    \A i \in 1..Len(devices) :
        /\ devices[i].state # "panic"
        /\ Built(devices[i]) =>
              /\ \A a \in DOMAIN devices[i].map :
                    Request_new(a, num_registers(devices[i].map[a].data_type)).end
                        = a + num_registers(devices[i].map[a].data_type)
              /\ \A j \in 1..Len(devices[i].requests) :
                    devices[i].requests[j].start < devices[i].requests[j].end

\* What the code does guarantee: a map none of whose registers reaches past
\* address 65535 is planned without failure and without a wrapped end.
PlanInfallibleBelowU16Max ==
    \A i \in 1..Len(devices) :
        ~HasOverflow(devices[i]) =>
            /\ devices[i].state # "panic"
            /\ \A j \in 1..Len(devices[i].requests) :
                  devices[i].requests[j].start < devices[i].requests[j].end

====
